---- MODULE Spec2Model ----
(***************************************************************************)
(* Heart Rate Profile plugin, profiles/heartrate/heartrate.c.              *)
(*                                                                         *)
(* One btd_service object of one device is driven through the four         *)
(* btd_profile entry points (device_probe, device_remove, accept,          *)
(* disconnect) in any order, while the GATT client delivers the callbacks  *)
(* the plugin registered (notification, CCC-write completion, read         *)
(* completion).  Everything runs on one event loop, so each handler is one *)
(* atomic action.                                                          *)
(***************************************************************************)
EXTENDS Integers, Sequences, FiniteSets, TLC

VARIABLES
    user_data,    \* btd_service user data: NULL or the pointer to struct heartrate
    allocated,    \* TRUE while the struct heartrate is allocated (g_new0 .. g_free)
    p,            \* contents of the struct heartrate (of its memory once freed)
    db_refs,      \* gatt_db references taken by the plugin and not yet released
    client_refs,  \* bt_gatt_client clones taken by the plugin and not yet released
    device_refs,  \* btd_device references taken by the plugin and not yet released
    pending,      \* operations registered with the GATT client, awaiting a callback
    fault,        \* "none", or how the process ended
    last          \* the last handler that ran: its input, result and prior state

vars == <<user_data, allocated, p, db_refs, client_refs, device_refs,
          pending, fault, last>>

(***************************************************************************)
(* Program constants                                                       *)
(***************************************************************************)
NULL == 0
HRP_UUID16 == 6157                          \* 0x180d
HEART_RATE_MEASUREMENT_UUID == "2a37"
BODY_SENSOR_LOCATION_UUID == "2a38"
HEART_RATE_CONTROL_POINT_UUID == "2a39"

\* The objects the device hands out: its gatt_db, its bt_gatt_client (a clone
\* of it) and the btd_device itself.  Only NULL / non-NULL matters.
DEVICE == 1
DB == 1
CLIENT == 1

(***************************************************************************)
(* Bounds                                                                  *)
(***************************************************************************)
\* accept is not offered once this many gatt_db references are outstanding,
\* and remove not once this many device references were over-released.
MaxRefs == 2

(***************************************************************************)
(* Inputs: the attribute trees accept may find on the device.              *)
(* A service attribute is numbered 10 * tree + position in the tree.       *)
(***************************************************************************)
Chr(u, h) == [uuid |-> u, value_handle |-> h, is_char |-> TRUE]

Svc(a, u, cs) == [attr |-> a, uuid |-> u, chars |-> cs]

Trees ==
    << \* 1: no Heart Rate service
       << Svc(11, 6159, << Chr("2a19", 7) >>) >>,
       \* 2: another service, then two Heart Rate services; the first has the
       \*    measurement, the body sensor location and the control point
       << Svc(21, 6159, << Chr("2a19", 7) >>),
          Svc(22, HRP_UUID16, << Chr(HEART_RATE_MEASUREMENT_UUID, 1),
                                 Chr(BODY_SENSOR_LOCATION_UUID, 2),
                                 Chr(HEART_RATE_CONTROL_POINT_UUID, 5) >>),
          Svc(23, HRP_UUID16, << Chr(HEART_RATE_MEASUREMENT_UUID, 3),
                                 Chr(BODY_SENSOR_LOCATION_UUID, 4) >>) >>,
       \* 3: one Heart Rate service with a body sensor location only, after an
       \*    unsupported characteristic
       << Svc(31, HRP_UUID16, << Chr("2a19", 7),
                                 Chr(BODY_SENSOR_LOCATION_UUID, 2) >>) >>,
       \* 4: one Heart Rate service exposing the measurement twice
       << Svc(41, HRP_UUID16, << Chr(HEART_RATE_MEASUREMENT_UUID, 1),
                                 Chr(HEART_RATE_MEASUREMENT_UUID, 3) >>) >> >>

TreeIds == DOMAIN Trees

ServiceAt(attr) == Trees[attr \div 10][attr % 10]

\* Bytes an out-of-bounds read of a notification buffer may produce.
Garbage == {0, 255}

\* Heart Rate Measurement payloads delivered in the lifecycle specification.
Payloads == { <<9, 100, 0, 5>> }

\* Body Sensor Location payloads a read may complete with.
BslPayloads == { <<>>, <<2>> }

(***************************************************************************)
(* struct heartrate                                                        *)
(***************************************************************************)
\* g_new0(struct heartrate, 1)
ZeroSession ==
    [ device |-> NULL, db |-> NULL, client |-> NULL, attr_service |-> NULL,
      heart_rate_measurement_handle |-> 0, hrm_value |-> 0, hrm_ee_value |-> 0,
      body_sensor_location_handle |-> 0, bsl_value |-> 0 ]

\* A handler's working context: the struct it mutates, the reference counts
\* it moves, and the GATT client requests it has issued so far.
Ctx(q) == [ p |-> q, db_refs |-> db_refs, client_refs |-> client_refs,
            device_refs |-> device_refs, reqs |-> << >> ]

(***************************************************************************)
(* Collaborators: reference counting, tree iteration and the GATT client.  *)
(***************************************************************************)
\* gatt_db_ref / gatt_db_unref: unref of NULL does nothing.
gatt_db_ref(refs) == refs + 1

gatt_db_unref(refs, db) == IF db = NULL THEN refs ELSE refs - 1

\* bt_gatt_client_clone / bt_gatt_client_unref: unref of NULL does nothing.
bt_gatt_client_clone(refs) == refs + 1

bt_gatt_client_unref(refs, client) == IF client = NULL THEN refs ELSE refs - 1

btd_device_ref(refs) == refs + 1

btd_device_unref(refs, device) == IF device = NULL THEN refs ELSE refs - 1

\* bt_gatt_client_register_notify(client, handle, ccc_written_cb, value_cb, p, NULL)
bt_gatt_client_register_notify(c, client, handle) ==
    [c EXCEPT !.reqs = Append(@, [kind |-> "notify", client |-> client,
                                  handle |-> handle])]

\* bt_gatt_client_read_value(client, handle, read_cb, p, NULL)
bt_gatt_client_read_value(c, client, handle) ==
    [c EXCEPT !.reqs = Append(@, [kind |-> "read", client |-> client,
                                  handle |-> handle])]

\* What the GATT client keeps of one request: nothing when it was handed a
\* NULL client; else a read awaits its completion, and a notify registration
\* stays registered for its CCC-write completion and its value notifications.
PendingOf(r) ==
    IF r.client = NULL THEN {}
    ELSE { [kind |-> r.kind, handle |-> r.handle, stale |-> FALSE] }

Issued(reqs) == UNION { PendingOf(reqs[i]) : i \in DOMAIN reqs }

\* The operations that were pending when the session was disconnected or removed.
MarkStale(ops) == { [e EXCEPT !.stale = TRUE] : e \in ops }

(***************************************************************************)
(* heartrate.c, helpers                                                    *)
(***************************************************************************)
\* heartrate_free with "btd_device_unref(p->device)" left out.
heartrate_free_keeps_device(c) ==
    [c EXCEPT !.db_refs = gatt_db_unref(@, c.p.db),
              !.client_refs = bt_gatt_client_unref(@, c.p.client)]

heartrate_free(c) ==
    [c EXCEPT !.db_refs = gatt_db_unref(@, c.p.db),
              !.client_refs = bt_gatt_client_unref(@, c.p.client),
              !.device_refs = btd_device_unref(@, c.p.device)]

\* heartrate_reset with "p->db = NULL" and "p->client = NULL" left out.
heartrate_reset_keeps_pointers(c) ==
    [c EXCEPT !.p.attr_service = NULL,
              !.db_refs = gatt_db_unref(@, c.p.db),
              !.client_refs = bt_gatt_client_unref(@, c.p.client)]

heartrate_reset(c) ==
    [c EXCEPT !.p.attr_service = NULL,
              !.db_refs = gatt_db_unref(@, c.p.db),
              !.p.db = NULL,
              !.client_refs = bt_gatt_client_unref(@, c.p.client),
              !.p.client = NULL]

\* struct hrm_flag, bit fields from the least significant bit
flag_hr(flag) == flag % 2

flag_sc(flag) == (flag \div 2) % 4

\* flag.ee taken from the bit of flag.rr.
flag_ee_from_rr_bit(flag) == (flag \div 16) % 2

flag_ee(flag) == (flag \div 8) % 2

flag_rr(flag) == (flag \div 16) % 2

flag_rffu(flag) == (flag \div 32) % 8

\* value[i] (i from 0): the byte when the buffer has it, else whatever lies
\* behind the buffer.  The handler is not given the length.
ByteAt(value, i) == IF i < Len(value) THEN { value[i + 1] } ELSE Garbage

\* The results parse_heartrate_measurement_value can leave in *p, each with
\* whether a byte at or beyond the payload length was read.
\* The 16-bit load at value + 1 is taken in little-endian byte order.
parse_heartrate_measurement_value(q, value) ==
    UNION { IF flag_hr(flag) = 0
        THEN { [ p |-> [q EXCEPT !.hrm_value = b1,
                                 !.hrm_ee_value = IF flag_ee(flag) = 1 THEN b2 ELSE @],
                 oob |-> Len(value) < (IF flag_ee(flag) = 1 THEN 3 ELSE 2) ]
               : b1 \in ByteAt(value, 1),
                 b2 \in (IF flag_ee(flag) = 1 THEN ByteAt(value, 2) ELSE {0}) }
        ELSE { [ p |-> [q EXCEPT !.hrm_value = b1 + 256 * b2,
                                 !.hrm_ee_value = IF flag_ee(flag) = 1 THEN b3 ELSE @],
                 oob |-> Len(value) < (IF flag_ee(flag) = 1 THEN 4 ELSE 3) ]
               : b1 \in ByteAt(value, 1), b2 \in ByteAt(value, 2),
                 b3 \in (IF flag_ee(flag) = 1 THEN ByteAt(value, 3) ELSE {0}) }
      : flag \in ByteAt(value, 0) }

\* handle_heartrate_measurement wired as the body sensor location is: a read
\* is issued and the registration is left to its completion.
handle_heartrate_measurement_read_first(c, value_handle) ==
    bt_gatt_client_read_value(
        [c EXCEPT !.p.heart_rate_measurement_handle = value_handle],
        c.p.client, value_handle)

handle_heartrate_measurement(c, value_handle) ==
    bt_gatt_client_register_notify(
        [c EXCEPT !.p.heart_rate_measurement_handle = value_handle],
        c.p.client, value_handle)

handle_body_sensor_location(c, value_handle) ==
    bt_gatt_client_read_value(
        [c EXCEPT !.p.body_sensor_location_handle = value_handle],
        c.p.client, value_handle)

handle_characteristic(c, attr) ==
    IF ~attr.is_char THEN c
    ELSE IF attr.uuid = HEART_RATE_MEASUREMENT_UUID
         THEN handle_heartrate_measurement(c, attr.value_handle)
    ELSE IF attr.uuid = BODY_SENSOR_LOCATION_UUID
         THEN handle_body_sensor_location(c, attr.value_handle)
    ELSE c

\* gatt_db_service_foreach_char(service, func, p): func on each characteristic
\* of the service, in attribute order.
RECURSIVE gatt_db_service_foreach_char(_, _, _)
gatt_db_service_foreach_char(c, chars, i) ==
    IF i > Len(chars) THEN c
    ELSE gatt_db_service_foreach_char(handle_characteristic(c, chars[i]), chars, i + 1)

handle_hrp_service(c) ==
    gatt_db_service_foreach_char(c, ServiceAt(c.p.attr_service).chars, 1)

\* foreach_hrp_service without the "more than one HRP service" check.
foreach_hrp_service_last_wins(c, attr) ==
    handle_hrp_service([c EXCEPT !.p.attr_service = attr])

foreach_hrp_service(c, attr) ==
    IF c.p.attr_service # NULL THEN c
    ELSE handle_hrp_service([c EXCEPT !.p.attr_service = attr])

\* gatt_db_foreach_service(db, uuid, func, p): func on each service of the
\* tree whose type is uuid, in attribute order.
RECURSIVE gatt_db_foreach_service(_, _, _, _)
gatt_db_foreach_service(c, tree, uuid, i) ==
    IF i > Len(tree) THEN c
    ELSE gatt_db_foreach_service(
             IF tree[i].uuid = uuid THEN foreach_hrp_service(c, tree[i].attr) ELSE c,
             tree, uuid, i + 1)

(***************************************************************************)
(* Bookkeeping shared by the handlers                                      *)
(***************************************************************************)
SESSION == 1        \* the pointer g_new0 returned

NoArg == [ tree |-> 0, value_handle |-> 0, value |-> << >>, success |-> FALSE ]

Pre == [ user_data |-> user_data, allocated |-> allocated, p |-> p,
         db_refs |-> db_refs, client_refs |-> client_refs,
         device_refs |-> device_refs ]

\* The record of the handler that just ran; ret is what it returned ("0",
\* "-1", "void"), or "none" when it did not return.
Ran(op, ret, arg, stale, reqs, oob) ==
    last' = [ op |-> op, ret |-> ret, arg |-> arg, stale |-> stale, reqs |-> reqs,
              oob |-> oob, pre |-> Pre ]

\* The handler dereferenced a pointer it must not: the process ends here.
Crash(how, op, arg, stale) ==
    /\ fault' = how
    /\ Ran(op, "none", arg, stale, << >>, FALSE)
    /\ UNCHANGED <<user_data, allocated, p, db_refs, client_refs, device_refs, pending>>

\* The handler's context is written back; its requests reach the GATT client.
Commit(c, ops) ==
    /\ p' = c.p
    /\ db_refs' = c.db_refs
    /\ client_refs' = c.client_refs
    /\ device_refs' = c.device_refs
    /\ pending' = ops \cup Issued(c.reqs)

(***************************************************************************)
(* The btd_profile entry points                                            *)
(***************************************************************************)
\* heartrate_probe without the "probed twice" check.
heartrate_probe_no_check ==
    /\ fault = "none"
    /\ device_refs < MaxRefs
    /\ allocated' = TRUE
    /\ p' = [ZeroSession EXCEPT !.device = DEVICE]
    /\ device_refs' = btd_device_ref(device_refs)
    /\ user_data' = SESSION
    /\ Ran("heartrate_probe", "0", NoArg, FALSE, << >>, FALSE)
    /\ UNCHANGED <<db_refs, client_refs, pending, fault>>

heartrate_probe ==
    /\ fault = "none"
    /\ IF user_data # NULL
       THEN /\ Ran("heartrate_probe", "-1", NoArg, FALSE, << >>, FALSE)
            /\ UNCHANGED <<user_data, allocated, p, db_refs, client_refs,
                           device_refs, pending, fault>>
       ELSE /\ allocated' = TRUE
            /\ p' = [ZeroSession EXCEPT !.device = DEVICE]
            /\ device_refs' = btd_device_ref(device_refs)
            /\ user_data' = SESSION
            /\ Ran("heartrate_probe", "0", NoArg, FALSE, << >>, FALSE)
            /\ UNCHANGED <<db_refs, client_refs, pending, fault>>

heartrate_remove ==
    /\ fault = "none"
    /\ device_refs > -MaxRefs
    /\ IF user_data = NULL
       THEN /\ Ran("heartrate_remove", "void", NoArg, FALSE, << >>, FALSE)
            /\ UNCHANGED <<user_data, allocated, p, db_refs, client_refs,
                           device_refs, pending, fault>>
       ELSE \/ /\ ~allocated
               /\ Crash("use_after_free", "heartrate_remove", NoArg, FALSE)
            \/ \* the struct is live, or its freed memory still reads as before
               /\ Commit(heartrate_free(Ctx(p)), MarkStale(pending))
               /\ allocated' = FALSE
               /\ Ran("heartrate_remove", "void", NoArg, FALSE, << >>, FALSE)
               /\ UNCHANGED <<user_data, fault>>

\* heartrate_accept without the "not handled by profile" check: it goes on to
\* store through the NULL pointer.
heartrate_accept_no_check(t) ==
    /\ fault = "none"
    /\ db_refs < MaxRefs
    /\ LET arg == [NoArg EXCEPT !.tree = t] IN
       IF user_data = NULL
       THEN Crash("null_deref", "heartrate_accept", arg, FALSE)
       ELSE \/ /\ ~allocated
               /\ Crash("use_after_free", "heartrate_accept", NoArg, FALSE)
            \/ LET c0 == [Ctx(p) EXCEPT !.p.db = DB,
                                        !.db_refs = gatt_db_ref(@),
                                        !.p.client = CLIENT,
                                        !.client_refs = bt_gatt_client_clone(@)]
                   c1 == gatt_db_foreach_service(c0, Trees[t], HRP_UUID16, 1)
                   found == c1.p.attr_service # NULL
                   c2 == IF found THEN c1 ELSE heartrate_reset(c1)
               IN  /\ Commit(c2, pending)
                   /\ Ran("heartrate_accept", IF found THEN "0" ELSE "-1", arg, FALSE,
                          c2.reqs, FALSE)
                   /\ UNCHANGED <<user_data, allocated, fault>>

\* heartrate_accept without the heartrate_reset of the "not found" path.
heartrate_accept_no_reset(t) ==
    /\ fault = "none"
    /\ db_refs < MaxRefs
    /\ LET arg == [NoArg EXCEPT !.tree = t] IN
       IF user_data = NULL
       THEN /\ Ran("heartrate_accept", "-1", arg, FALSE, << >>, FALSE)
            /\ UNCHANGED <<user_data, allocated, p, db_refs, client_refs,
                           device_refs, pending, fault>>
       ELSE \/ /\ ~allocated
               /\ Crash("use_after_free", "heartrate_accept", NoArg, FALSE)
            \/ LET c0 == [Ctx(p) EXCEPT !.p.db = DB,
                                        !.db_refs = gatt_db_ref(@),
                                        !.p.client = CLIENT,
                                        !.client_refs = bt_gatt_client_clone(@)]
                   c1 == gatt_db_foreach_service(c0, Trees[t], HRP_UUID16, 1)
                   found == c1.p.attr_service # NULL
               IN  /\ Commit(c1, pending)
                   /\ Ran("heartrate_accept", IF found THEN "0" ELSE "-1", arg, FALSE,
                          c1.reqs, FALSE)
                   /\ UNCHANGED <<user_data, allocated, fault>>

heartrate_accept(t) ==
    /\ fault = "none"
    /\ db_refs < MaxRefs
    /\ LET arg == [NoArg EXCEPT !.tree = t] IN
       IF user_data = NULL
       THEN /\ Ran("heartrate_accept", "-1", arg, FALSE, << >>, FALSE)
            /\ UNCHANGED <<user_data, allocated, p, db_refs, client_refs,
                           device_refs, pending, fault>>
       ELSE \/ /\ ~allocated
               /\ Crash("use_after_free", "heartrate_accept", NoArg, FALSE)
            \/ LET c0 == [Ctx(p) EXCEPT !.p.db = DB,
                                        !.db_refs = gatt_db_ref(@),
                                        !.p.client = CLIENT,
                                        !.client_refs = bt_gatt_client_clone(@)]
                   c1 == gatt_db_foreach_service(c0, Trees[t], HRP_UUID16, 1)
                   found == c1.p.attr_service # NULL
                   c2 == IF found THEN c1 ELSE heartrate_reset(c1)
               IN  /\ Commit(c2, pending)
                   /\ Ran("heartrate_accept", IF found THEN "0" ELSE "-1", arg, FALSE,
                          c2.reqs, FALSE)
                   /\ UNCHANGED <<user_data, allocated, fault>>

heartrate_disconnect ==
    /\ fault = "none"
    /\ IF user_data = NULL
       THEN Crash("null_deref", "heartrate_disconnect", NoArg, FALSE)
       ELSE \/ /\ ~allocated
               /\ Crash("use_after_free", "heartrate_disconnect", NoArg, FALSE)
            \/ /\ Commit(heartrate_reset(Ctx(p)), MarkStale(pending))
               /\ Ran("heartrate_disconnect", "0", NoArg, FALSE, << >>, FALSE)
               /\ UNCHANGED <<user_data, allocated, fault>>

(***************************************************************************)
(* The callbacks the GATT client delivers                                  *)
(***************************************************************************)
\* hrp_io_value_cb with an empty last branch in place of g_assert_not_reached().
hrp_io_value_cb_ignores(e, value) ==
    /\ fault = "none"
    /\ e \in pending /\ e.kind = "notify"
    /\ LET arg == [NoArg EXCEPT !.value_handle = e.handle, !.value = value]
           op == "hrp_io_value_cb"
       IN  \/ /\ ~allocated
              /\ Crash("use_after_free", op, NoArg, FALSE)
           \/ IF e.handle = p.heart_rate_measurement_handle
              THEN \E r \in parse_heartrate_measurement_value(p, value) :
                      /\ p' = r.p
                      /\ Ran(op, "void", arg, e.stale, << >>, r.oob)
                      /\ UNCHANGED <<user_data, allocated, db_refs, client_refs,
                                     device_refs, pending, fault>>
              ELSE /\ Ran(op, "void", arg, e.stale, << >>, FALSE)
                   /\ UNCHANGED <<user_data, allocated, p, db_refs, client_refs,
                                  device_refs, pending, fault>>

hrp_io_value_cb(e, value) ==
    /\ fault = "none"
    /\ e \in pending /\ e.kind = "notify"
    /\ LET arg == [NoArg EXCEPT !.value_handle = e.handle, !.value = value]
           op == "hrp_io_value_cb"
       IN  \/ /\ ~allocated
              /\ Crash("use_after_free", op, NoArg, FALSE)
           \/ IF e.handle = p.heart_rate_measurement_handle
              THEN \E r \in parse_heartrate_measurement_value(p, value) :
                      /\ p' = r.p
                      /\ Ran(op, "void", arg, e.stale, << >>, r.oob)
                      /\ UNCHANGED <<user_data, allocated, db_refs, client_refs,
                                     device_refs, pending, fault>>
              ELSE IF e.handle = p.body_sensor_location_handle
              THEN /\ Ran(op, "void", arg, e.stale, << >>, FALSE)
                   /\ UNCHANGED <<user_data, allocated, p, db_refs, client_refs,
                                  device_refs, pending, fault>>
              ELSE \* g_assert_not_reached()
                   Crash("assert", op, arg, e.stale)

\* The handler only logs, so how often the client reports the CCC write of a
\* registration is left open.
hrp_io_ccc_written_cb(e, att_ecode) ==
    /\ fault = "none"
    /\ e \in pending /\ e.kind = "notify"
    /\ Ran("hrp_io_ccc_written_cb", "void", [NoArg EXCEPT !.value_handle = e.handle],
           e.stale, << >>, FALSE)
    /\ UNCHANGED <<user_data, allocated, p, db_refs, client_refs, device_refs,
                   pending, fault>>

read_body_sensor_location_cb(e, success, value) ==
    /\ fault = "none"
    /\ e \in pending /\ e.kind = "read"
    /\ LET arg == [NoArg EXCEPT !.value_handle = e.handle, !.value = value,
                                !.success = success]
           op == "read_body_sensor_location_cb"
           rest == pending \ {e}
       IN  IF ~success \/ Len(value) = 0
           THEN /\ pending' = rest
                /\ Ran(op, "void", arg, e.stale, << >>, FALSE)
                /\ UNCHANGED <<user_data, allocated, p, db_refs, client_refs,
                               device_refs, fault>>
           ELSE \/ /\ ~allocated
                   /\ Crash("use_after_free", op, NoArg, FALSE)
                \/ LET c == bt_gatt_client_register_notify(
                                [Ctx(p) EXCEPT !.p.bsl_value = value[1]],
                                p.client, p.body_sensor_location_handle)
                   IN  /\ Commit(c, rest)
                       /\ Ran(op, "void", arg, e.stale, c.reqs, FALSE)
                       /\ UNCHANGED <<user_data, allocated, fault>>

(***************************************************************************)
(* Specification                                                           *)
(***************************************************************************)
Init ==
    /\ user_data = NULL
    /\ allocated = FALSE
    /\ p = ZeroSession
    /\ db_refs = 0
    /\ client_refs = 0
    /\ device_refs = 0
    /\ pending = {}
    /\ fault = "none"
    /\ last = [ op |-> "init", ret |-> "none", arg |-> NoArg, stale |-> FALSE,
                reqs |-> << >>, oob |-> FALSE,
                pre |-> [ user_data |-> NULL, allocated |-> FALSE, p |-> ZeroSession,
                          db_refs |-> 0, client_refs |-> 0, device_refs |-> 0 ] ]

Next ==
    \/ heartrate_probe
    \/ heartrate_remove
    \/ \E t \in TreeIds : heartrate_accept(t)
    \/ heartrate_disconnect
    \/ \E e \in pending, value \in Payloads : hrp_io_value_cb(e, value)
    \/ \E e \in pending, att_ecode \in {0, 1} : hrp_io_ccc_written_cb(e, att_ecode)
    \/ \E e \in pending, success \in BOOLEAN, value \in BslPayloads :
           read_body_sensor_location_cb(e, success, value)

Spec == Init /\ [][Next]_vars

(***************************************************************************)
(* Decoder specification: a Session bound by probe and accept of tree 2    *)
(* receives Heart Rate Measurement notifications of every shape.           *)
(***************************************************************************)
\* Longest run of bytes after the flag byte in a notification.
MaxBody == 3

\* Flag bytes: the four combinations of the format bit (bit 0) and the
\* energy-expended bit (bit 3), alone and with sensor-contact (6), RR-interval
\* (16) and reserved (224) bits set.
DecodeFlags == { 0, 1, 8, 9, 6, 16, 224, 233 }

DecodeData == { 5, 72 }

DecodePayloads ==
    { << >> } \cup
    { <<f>> \o b : f \in DecodeFlags,
                   b \in UNION { [1..k -> DecodeData] : k \in 0..MaxBody } }

\* heartrate_probe, then heartrate_accept on tree 2.
ProbedSession == [ZeroSession EXCEPT !.device = DEVICE]

BoundCtx ==
    gatt_db_foreach_service(
        [ p |-> [ProbedSession EXCEPT !.db = DB, !.client = CLIENT],
          db_refs |-> 1, client_refs |-> 1, device_refs |-> 1, reqs |-> << >> ],
        Trees[2], HRP_UUID16, 1)

DecodeInit ==
    /\ user_data = SESSION
    /\ allocated = TRUE
    /\ p = BoundCtx.p
    /\ db_refs = 1
    /\ client_refs = 1
    /\ device_refs = 1
    /\ pending = Issued(BoundCtx.reqs)
    /\ fault = "none"
    /\ last = [ op |-> "heartrate_accept", ret |-> "0",
                arg |-> [NoArg EXCEPT !.tree = 2], stale |-> FALSE,
                reqs |-> BoundCtx.reqs, oob |-> FALSE,
                pre |-> [ user_data |-> SESSION, allocated |-> TRUE,
                          p |-> ProbedSession, db_refs |-> 0, client_refs |-> 0,
                          device_refs |-> 1 ] ]

DecodeNext ==
    \E e \in pending, value \in DecodePayloads : hrp_io_value_cb(e, value)

SpecDecode == DecodeInit /\ [][DecodeNext]_vars

(***************************************************************************)
(* Vocabulary of the properties                                            *)
(***************************************************************************)
\* The device has a Session: the service's user data points to a live struct.
HasSession == user_data # NULL /\ allocated

HadSession == last.pre.user_data # NULL /\ last.pre.allocated

Callbacks == { "hrp_io_value_cb", "hrp_io_ccc_written_cb",
               "read_body_sensor_location_cb" }

\* The services of tree t that gatt_db_foreach_service visits, in order.
Matches(t) == SelectSeq(Trees[t], LAMBDA s : s.uuid = HRP_UUID16)

ValueHandles(service) ==
    { service.chars[i].value_handle : i \in DOMAIN service.chars }

RefsUnchanged ==
    /\ db_refs = last.pre.db_refs
    /\ client_refs = last.pre.client_refs
    /\ device_refs = last.pre.device_refs

(***************************************************************************)
(* C1.  In every state reachable by bind, accept, disconnect and remove,   *)
(* the Session's outstanding references on the attribute tree and on the   *)
(* rpc client are each exactly 1 while the Session holds that handle and 0 *)
(* otherwise.  Stated over the states in which the service's user data is  *)
(* NULL or points to the live struct.                                      *)
(* Fails: accept on a Session that already holds the handles overwrites    *)
(* p->db and p->client without releasing them.                             *)
(***************************************************************************)
C1_OutstandingRefsMatchHandles ==
    (user_data = NULL \/ allocated) =>
        /\ db_refs = (IF HasSession /\ p.db # NULL THEN 1 ELSE 0)
        /\ client_refs = (IF HasSession /\ p.client # NULL THEN 1 ELSE 0)

(***************************************************************************)
(* C2.  A callback that was pending when the Session was disconnected and  *)
(* is delivered afterwards changes no field of the Session and issues no   *)
(* read or subscribe request.                                              *)
(* Fails: the callbacks do not look at whether the Session is still bound. *)
(***************************************************************************)
C2_StrayCallbackDiscarded ==
    (last.op \in Callbacks /\ last.stale /\ HadSession) =>
        /\ p = last.pre.p
        /\ last.reqs = << >>

(***************************************************************************)
(* C3.  disconnect on a Bound Session releases the attribute-tree and      *)
(* rpc-client handles, clears service_ref and both characteristic handles, *)
(* leaves the decoded values unchanged and reports success.                *)
(* Fails: heartrate_reset leaves both characteristic handles as they were. *)
(***************************************************************************)
C3_DisconnectResetsSession ==
    (/\ last.op = "heartrate_disconnect"
     /\ HadSession
     /\ last.pre.p.db # NULL /\ last.pre.p.client # NULL
     /\ last.pre.p.attr_service # NULL) =>
        /\ last.ret = "0"
        /\ p.db = NULL /\ db_refs = last.pre.db_refs - 1
        /\ p.client = NULL /\ client_refs = last.pre.client_refs - 1
        /\ p.attr_service = NULL
        /\ p.heart_rate_measurement_handle = 0
        /\ p.body_sensor_location_handle = 0
        /\ p.hrm_value = last.pre.p.hrm_value
        /\ p.hrm_ee_value = last.pre.p.hrm_ee_value
        /\ p.bsl_value = last.pre.p.bsl_value

(***************************************************************************)
(* C4.  A disconnect that directly follows a disconnect of the Session     *)
(* releases no attribute-tree or rpc-client reference again and leaves the *)
(* state as the first disconnect left it, and reports success.             *)
(***************************************************************************)
C4_SecondDisconnectNoOp ==
    [][ (/\ HasSession
         /\ last.op = "heartrate_disconnect"
         /\ last'.op = "heartrate_disconnect") =>
            /\ last'.ret = "0"
            /\ p' = p
            /\ db_refs' = db_refs
            /\ client_refs' = client_refs
            /\ device_refs' = device_refs
            /\ fault' = "none" ]_vars

\* A disconnect has run on a Session that an earlier accept had bound and an
\* earlier disconnect had already reset.
C4_Witness ==
    /\ last.op = "heartrate_disconnect"
    /\ HadSession
    /\ last.pre.p.db = NULL /\ last.pre.p.client = NULL
    /\ last.pre.p.heart_rate_measurement_handle # 0
    /\ last.ret = "0"

(***************************************************************************)
(* C5.  bind for a device that already has a Session returns an error and  *)
(* changes nothing: no Session is allocated, no device reference is taken, *)
(* every Session field keeps its value.                                    *)
(***************************************************************************)
C5_SecondProbeRejected ==
    (last.op = "heartrate_probe" /\ HadSession) =>
        /\ last.ret = "-1"
        /\ user_data = last.pre.user_data
        /\ allocated = last.pre.allocated
        /\ p = last.pre.p
        /\ RefsUnchanged
        /\ fault = "none"

\* bind has run on a Bound Session with decoded values.
C5_Witness ==
    /\ last.op = "heartrate_probe"
    /\ HadSession
    /\ last.pre.p.attr_service # NULL
    /\ last.pre.p.hrm_value # 0

(***************************************************************************)
(* C6.  accept for a service with no user data returns an error, acquires  *)
(* no attribute-tree or rpc-client reference, runs no discovery and issues *)
(* no read or subscribe request.                                           *)
(***************************************************************************)
C6_AcceptWithoutProbe ==
    (last.op = "heartrate_accept" /\ last.pre.user_data = NULL) =>
        /\ last.ret = "-1"
        /\ RefsUnchanged
        /\ p = last.pre.p
        /\ p.attr_service = NULL
        /\ last.reqs = << >>
        /\ pending = {}
        /\ fault = "none"

\* accept has run, with no prior bind, against a tree that has the service.
C6_Witness ==
    /\ last.op = "heartrate_accept"
    /\ last.pre.user_data = NULL
    /\ Len(Matches(last.arg.tree)) > 0
    /\ last.ret = "-1"

(***************************************************************************)
(* C7.  When accept finds no service instance of the target type it fails, *)
(* the references it acquired are released, attribute_tree, rpc_client and *)
(* service_ref are all empty afterwards, and the Session still exists.     *)
(* Fails: on a Session that is already bound (see C1) the service_ref of   *)
(* the earlier accept makes the "not found" test pass.                     *)
(***************************************************************************)
C7_NoServiceFailsAndResets ==
    (/\ last.op = "heartrate_accept"
     /\ HadSession
     /\ Len(Matches(last.arg.tree)) = 0) =>
        /\ last.ret = "-1"
        /\ HasSession
        /\ p.db = NULL /\ p.client = NULL /\ p.attr_service = NULL
        /\ last.reqs = << >>

(***************************************************************************)
(* C8.  When accept on a Probed or Disconnected Session finds two or more  *)
(* matching service instances, service_ref is the first in iteration       *)
(* order, and handles are wired and requests issued only for the           *)
(* characteristics of that first instance.                                 *)
(***************************************************************************)
C8_FirstServiceWins ==
    (/\ last.op = "heartrate_accept"
     /\ HadSession
     /\ last.pre.p.attr_service = NULL
     /\ Len(Matches(last.arg.tree)) >= 2) =>
        LET first == Matches(last.arg.tree)[1] IN
        /\ last.ret = "0"
        /\ p.attr_service = first.attr
        /\ \A i \in DOMAIN last.reqs : last.reqs[i].handle \in ValueHandles(first)
        /\ p.heart_rate_measurement_handle \in
               ValueHandles(first) \cup { last.pre.p.heart_rate_measurement_handle }
        /\ p.body_sensor_location_handle \in
               ValueHandles(first) \cup { last.pre.p.body_sensor_location_handle }

\* accept has run on a Disconnected Session, wired earlier to other handles,
\* against the tree with two Heart Rate services, and has issued requests.
C8_Witness ==
    /\ last.op = "heartrate_accept"
    /\ HadSession
    /\ last.pre.p.attr_service = NULL
    /\ last.pre.p.heart_rate_measurement_handle = 3
    /\ Len(Matches(last.arg.tree)) >= 2
    /\ Len(last.reqs) = 2
    /\ p.heart_rate_measurement_handle = 1

(***************************************************************************)
(* C9.  remove for a device that has a Session releases the Session's      *)
(* device reference exactly once and destroys the Session; remove for a    *)
(* device whose service has no user data changes nothing.                  *)
(* (A remove that finds the pointer an earlier remove freed is neither     *)
(* case; it is the subject of C18.)                                        *)
(***************************************************************************)
C9_RemoveReleasesDeviceOnce ==
    (last.op = "heartrate_remove") =>
        /\ HadSession =>
               /\ device_refs = last.pre.device_refs - 1
               /\ device_refs = 0
               /\ ~HasSession
               /\ fault = "none"
        /\ last.pre.user_data = NULL =>
               /\ RefsUnchanged
               /\ p = last.pre.p
               /\ user_data = NULL
               /\ allocated = last.pre.allocated
               /\ pending = {}
               /\ fault = "none"

\* remove has run on a Bound Session.
C9_Witness ==
    /\ last.op = "heartrate_remove"
    /\ HadSession
    /\ last.pre.p.attr_service # NULL
    /\ last.pre.device_refs = 1
    /\ device_refs = 0
    /\ ~allocated

(***************************************************************************)
(* C10.  A notification whose handle equals neither the Session's stored   *)
(* measurement handle nor its stored body-sensor-location handle always    *)
(* ends in the assertion failure, and stores nothing into the Session.     *)
(***************************************************************************)
C10_DanglingNotificationAsserts ==
    (/\ last.op = "hrp_io_value_cb"
     /\ HadSession
     /\ last.arg.value_handle # last.pre.p.heart_rate_measurement_handle
     /\ last.arg.value_handle # last.pre.p.body_sensor_location_handle) =>
        /\ fault = "assert"
        /\ p = last.pre.p

\* A notification has arrived on a handle that a later characteristic of the
\* same service has displaced from the Session.
C10_Witness ==
    /\ last.op = "hrp_io_value_cb"
    /\ HadSession
    /\ ~last.stale
    /\ last.arg.value_handle = 1
    /\ last.pre.p.heart_rate_measurement_handle = 3
    /\ last.pre.p.body_sensor_location_handle # 1
    /\ fault = "assert"


(***************************************************************************)
(* Vocabulary of the decoder properties, in the words of the format: byte  *)
(* 0 is the flag byte, bit 0 selects the 16-bit format, bit 3 announces    *)
(* the secondary value.                                                    *)
(***************************************************************************)
Bit0(v) == v[1] % 2

Bit3(v) == (v[1] \div 8) % 2

\* The number of bytes the flag byte requires.
Required(v) == (IF Bit0(v) = 0 THEN 2 ELSE 3) + (IF Bit3(v) = 1 THEN 1 ELSE 0)

Complete(v) == Len(v) >= 1 /\ Len(v) >= Required(v)

\* The payload reduced to bit 0, bit 3 and the bytes they require.
Canon(v) == << Bit0(v) + 8 * Bit3(v) >> \o SubSeq(v, 2, Required(v))

Decoded(q) == [ primary |-> q.hrm_value, secondary |-> q.hrm_ee_value ]

\* A notification was delivered on the Session's measurement handle.
MeasurementDelivered ==
    /\ last.op = "hrp_io_value_cb"
    /\ HadSession
    /\ last.arg.value_handle = last.pre.p.heart_rate_measurement_handle

(***************************************************************************)
(* C11.  For a measurement payload that has all the bytes its flag byte    *)
(* requires, the notification stores primary = byte[1] (bit 0 clear) or    *)
(* byte[1] + 256 * byte[2] (bit 0 set), and, when bit 3 is set, secondary  *)
(* = the byte at offset 2 (bit 0 clear) or 3 (bit 0 set).  What is stored  *)
(* is what the same Session would store for the payload reduced to bit 0,  *)
(* bit 3 and the required bytes: the other flag bits and any trailing      *)
(* bytes change nothing.                                                   *)
(***************************************************************************)
C11_DecodedValues ==
    (MeasurementDelivered /\ Complete(last.arg.value)) =>
        LET v == last.arg.value IN
        /\ fault = "none"
        /\ p.hrm_value = (IF Bit0(v) = 0 THEN v[2] ELSE v[2] + 256 * v[3])
        /\ Bit3(v) = 1 => p.hrm_ee_value = v[IF Bit0(v) = 0 THEN 3 ELSE 4]
        /\ \A r \in parse_heartrate_measurement_value(last.pre.p, Canon(v)) :
               Decoded(p) = Decoded(r.p)

\* A 16-bit measurement with the secondary value, reserved flag bits set and
\* nothing missing has been decoded over other values.
C11_Witness ==
    /\ MeasurementDelivered
    /\ last.arg.value = <<233, 72, 5, 72>>
    /\ last.pre.p.hrm_value = 5
    /\ p.hrm_value = 1352
    /\ p.hrm_ee_value = 72

(***************************************************************************)
(* C12.  A measurement notification whose payload is empty or shorter than *)
(* its flag byte requires reads no byte at or beyond the payload length    *)
(* and leaves the stored primary and secondary values unchanged.           *)
(* Fails: hrp_io_value_cb drops the length, and the parser reads value[0]  *)
(* to value[3] as the flag byte tells it.                                  *)
(***************************************************************************)
C12_TruncatedPayloadRejected ==
    (MeasurementDelivered /\ ~Complete(last.arg.value)) =>
        /\ ~last.oob
        /\ p.hrm_value = last.pre.p.hrm_value
        /\ p.hrm_ee_value = last.pre.p.hrm_ee_value

(***************************************************************************)
(* C13.  Decoding depends on the payload alone: a Session with any prior   *)
(* decoded values holds, after a complete measurement payload, the primary *)
(* and secondary values a freshly bound Session holds after the same       *)
(* payload; with bit 3 clear the secondary value is not one carried over.  *)
(* Fails: with bit 3 clear hrm_ee_value is left as the earlier             *)
(* notification set it.                                                    *)
(***************************************************************************)
C13_DecodingIgnoresPriorValues ==
    (MeasurementDelivered /\ Complete(last.arg.value)) =>
        \A r \in parse_heartrate_measurement_value(BoundCtx.p, last.arg.value) :
            Decoded(p) = Decoded(r.p)

(***************************************************************************)
(* C14.  When the read of the body sensor location completes on a live,    *)
(* connected Session: on failure no request is issued and the Session is   *)
(* unchanged; on success exactly one notification registration is issued,  *)
(* for the handle that was read, whether the payload is empty or not.      *)
(* Fails: a successful read with an empty payload returns before the       *)
(* registration.                                                           *)
(***************************************************************************)
C14_ReadThenSubscribe ==
    (last.op = "read_body_sensor_location_cb" /\ HadSession /\ ~last.stale) =>
        IF ~last.arg.success
        THEN last.reqs = << >> /\ p = last.pre.p
        ELSE last.reqs = << [ kind |-> "notify", client |-> last.pre.p.client,
                              handle |-> last.arg.value_handle ] >>

\* What discovery wires: the service and the two characteristic handles.
Wiring(q) == [ attr_service |-> q.attr_service,
               heart_rate_measurement_handle |-> q.heart_rate_measurement_handle,
               body_sensor_location_handle |-> q.body_sensor_location_handle ]

\* The first accept on a freshly probed service whose device exposes tree t.
FirstAccept(t) ==
    gatt_db_foreach_service(
        [ p |-> [ProbedSession EXCEPT !.db = DB, !.client = CLIENT],
          db_refs |-> 1, client_refs |-> 1, device_refs |-> 1, reqs |-> << >> ],
        Trees[t], HRP_UUID16, 1)

(***************************************************************************)
(* C15.  An accept that succeeds on a Session that is not connected (no    *)
(* database, no client, no service) leaves the service and the two         *)
(* characteristic handles exactly as the first accept on a freshly probed  *)
(* service leaves them for the same attribute tree, and issues the same    *)
(* requests.                                                               *)
(* Fails: the handles of the previous accept survive the disconnect (C3),  *)
(* so a characteristic the current tree lacks keeps its old handle.        *)
(***************************************************************************)
C15_ReacceptFromScratch ==
    ( /\ last.op = "heartrate_accept" /\ last.ret = "0"
      /\ HadSession
      /\ last.pre.p.db = NULL /\ last.pre.p.client = NULL
      /\ last.pre.p.attr_service = NULL ) =>
        /\ Wiring(p) = Wiring(FirstAccept(last.arg.tree).p)
        /\ last.reqs = FirstAccept(last.arg.tree).reqs

\* The value handles of the characteristics of a service that carry uuid.
HandlesOf(service, uuid) ==
    { service.chars[i].value_handle :
        i \in { j \in DOMAIN service.chars : service.chars[j].uuid = uuid } }

(***************************************************************************)
(* C16.  A notification delivered on a live, connected Session, through a  *)
(* registration of the current connection, on a handle the discovery of    *)
(* the bound service subscribed to, never reaches the unrecognized-handle  *)
(* branch of hrp_io_value_cb.                                              *)
(* Fails: a service with two measurement characteristics gets a            *)
(* registration for each handle, and only the second handle is stored.     *)
(***************************************************************************)
C16_SubscribedHandleRecognised ==
    ( /\ last.op = "hrp_io_value_cb"
      /\ HadSession /\ ~last.stale
      /\ last.pre.p.attr_service # NULL
      /\ last.arg.value_handle \in
             HandlesOf(ServiceAt(last.pre.p.attr_service),
                       HEART_RATE_MEASUREMENT_UUID) ) =>
        fault # "assert"

\* The requests one pass over chars issues, in order.
PassRequests(chars) ==
    LET known == SelectSeq(chars, LAMBDA ch :
                     ch.uuid \in { HEART_RATE_MEASUREMENT_UUID,
                                   BODY_SENSOR_LOCATION_UUID })
    IN  [ i \in 1..Len(known) |->
            [ kind |-> IF known[i].uuid = HEART_RATE_MEASUREMENT_UUID
                       THEN "notify" ELSE "read",
              client |-> CLIENT,
              handle |-> known[i].value_handle ] ]

\* The handle one pass over chars leaves for uuid, old being the one before.
PassHandle(chars, uuid, old) ==
    LET m == SelectSeq(chars, LAMBDA ch : ch.uuid = uuid)
    IN  IF m = << >> THEN old ELSE m[Len(m)].value_handle

(***************************************************************************)
(* C17.  The discovery pass of an accept over the first Heart Rate service *)
(* issues, in characteristic order, one notification registration (and no  *)
(* read) per measurement characteristic and one read per body sensor       *)
(* location characteristic, each for that characteristic's value handle,   *)
(* and nothing for the control point or an unsupported characteristic,     *)
(* which do not end the pass; each handle is the one of the last such      *)
(* characteristic, or what it was when there is none.                      *)
(***************************************************************************)
C17_DiscoveryPass ==
    ( /\ last.op = "heartrate_accept"
      /\ HadSession
      /\ last.pre.p.attr_service = NULL
      /\ Matches(last.arg.tree) # << >> ) =>
        LET chars == Matches(last.arg.tree)[1].chars IN
        /\ last.reqs = PassRequests(chars)
        /\ p.heart_rate_measurement_handle =
               PassHandle(chars, HEART_RATE_MEASUREMENT_UUID,
                          last.pre.p.heart_rate_measurement_handle)
        /\ p.body_sensor_location_handle =
               PassHandle(chars, BODY_SENSOR_LOCATION_UUID,
                          last.pre.p.body_sensor_location_handle)

\* Passes have run over a service with the three characteristics and over
\* one whose first characteristic is unsupported.
C17_Witness ==
    /\ last.op = "heartrate_accept" /\ HadSession
    /\ last.pre.p.attr_service = NULL
    /\ last.pre.p.heart_rate_measurement_handle = 1
    /\ last.arg.tree = 3
    /\ last.reqs = << [kind |-> "read", client |-> CLIENT, handle |-> 2] >>
    /\ p.body_sensor_location_handle = 2

\* The service's user data points to a struct heartrate_remove has freed.
WasRemoved == last.pre.user_data # NULL /\ ~last.pre.allocated

(***************************************************************************)
(* C18.  After heartrate_remove has destroyed the Session the service has  *)
(* none: its user data is NULL, and a call that follows finds no Session,  *)
(* so heartrate_probe allocates one and returns 0, heartrate_accept        *)
(* returns -1, and heartrate_remove returns without releasing anything.    *)
(* Fails: heartrate_remove frees the struct and leaves the pointer in the  *)
(* service's user data.                                                    *)
(***************************************************************************)
C18_RemoveLeavesNoSession ==
    /\ (last.op = "heartrate_remove" /\ HadSession) => user_data = NULL
    /\ (last.op = "heartrate_probe" /\ WasRemoved) =>
           last.ret = "0" /\ HasSession
    /\ (last.op = "heartrate_accept" /\ WasRemoved) =>
           last.ret = "-1" /\ fault = "none"
    /\ (last.op = "heartrate_remove" /\ WasRemoved) =>
           last.ret = "void" /\ fault = "none" /\ RefsUnchanged

Lifecycle == { "heartrate_probe", "heartrate_accept", "heartrate_disconnect",
               "heartrate_remove" }

(***************************************************************************)
(* C19.  Each of heartrate_probe, heartrate_accept, heartrate_disconnect   *)
(* and heartrate_remove, called while the service has a live Session or    *)
(* none (NULL user data), returns without a fault; heartrate_disconnect on *)
(* a service that was never probed resets nothing.                         *)
(* Fails: heartrate_disconnect passes the NULL user data to                *)
(* heartrate_reset, which stores through it.                               *)
(***************************************************************************)
C19_EntryPointsTolerateNoSession ==
    (last.op \in Lifecycle /\ (HadSession \/ last.pre.user_data = NULL)) =>
        /\ fault = "none"
        /\ last.ret \in { "0", "-1", "void" }

Held == p.db # NULL /\ p.client # NULL

(***************************************************************************)
(* C20.  While the service has a live Session, attr_service is set only if *)
(* the Session holds both the database and the client; and right after a   *)
(* heartrate_accept on a live Session returns, both are held exactly when  *)
(* attr_service is set and the accept returned 0.                          *)
(***************************************************************************)
C20_ServiceImpliesHandles ==
    HasSession =>
        /\ p.attr_service # NULL => Held
        /\ (last.op = "heartrate_accept" /\ HadSession) =>
               (Held <=> (p.attr_service # NULL /\ last.ret = "0"))

\* An accept has returned 0 on a Session that was already connected, for a
\* tree without a Heart Rate service.
C20_Witness ==
    /\ HasSession
    /\ last.op = "heartrate_accept" /\ HadSession
    /\ last.pre.p.attr_service # NULL
    /\ last.arg.tree = 1
    /\ last.ret = "0" /\ Held

====
